---- MODULE Spec2Model ----
(***************************************************************************)
(* Key-value store of the refactoring tutorial: the axum handlers post_kv, *)
(* get_kv and grayscale over the RwLock-guarded AppState, the KVDatabase   *)
(* backends, and the StoredType classification and response conversion.    *)
(***************************************************************************)
EXTENDS Integers, Sequences, FiniteSets, TLC

\* ------------------------------------------------------------------ bounds
NumHandlers == 2
MaxRequests == 3

Handlers == 1..NumHandlers
\* The keys the tests use: /kv/crab and /kv/test.
Keys == {"crab", "test"}

\* ----------------------------------------------------------------- strings
\* Strings are sequences of characters, so that prefix tests are computed.
Str_image == <<"i", "m", "a", "g", "e">>
Str_image_slash == <<"i", "m", "a", "g", "e", "/">>
Str_images == <<"i", "m", "a", "g", "e", "s">>
Str_text == <<"t", "e", "x", "t">>
Str_plain == <<"p", "l", "a", "i", "n">>
Str_png == <<"p", "n", "g">>
Str_jpeg == <<"j", "p", "e", "g">>
Str_image_png == <<"i", "m", "a", "g", "e", "/", "p", "n", "g">>

starts_with(s, prefix) ==
    /\ Len(s) >= Len(prefix)
    /\ SubSeq(s, 1, Len(prefix)) = prefix

\* A ContentType header value is a parsed media type; to_string prints
\* type "/" subtype.
ContentType(type, subtype) == [type |-> type, subtype |-> subtype]
to_string(content_type) == content_type.type \o <<"/">> \o content_type.subtype

TextPlain == ContentType(Str_text, Str_plain)
ImagePng == ContentType(Str_image, Str_png)
ImageJpeg == ContentType(Str_image, Str_jpeg)
ImagesPlain == ContentType(Str_images, Str_plain)

\* ------------------------------------------------------------ byte payloads
\* A body is abstracted to the file format its bytes are in and what they
\* hold.  "exr" stands for a format the image crate decodes to a float
\* colour type, which its PNG encoder rejects.
Bytes(fmt, body) == [fmt |-> fmt, body |-> body]
HelloWorld == Bytes("text", "Hello World")
CrabPng == Bytes("png", "crab")
CrabGrayPng == Bytes("png", "crab-gray")
CrabJpeg == Bytes("jpeg", "crab")
CrabExr == Bytes("exr", "crab")

Ok(v) == [ok |-> TRUE, val |-> <<v>>, err |-> <<>>]
Err(e) == [ok |-> FALSE, val |-> <<>>, err |-> <<e>>]
Unwrap(r) == r.val[1]
UnwrapErr(r) == r.err[1]

\* image::load_from_memory: guesses the format from the bytes alone.
load_from_memory(bytes) ==
    CASE bytes.fmt \in {"png", "jpeg"} ->
            Ok([pixels |-> bytes.body, color |-> "u8"])
      [] bytes.fmt = "exr" ->
            Ok([pixels |-> bytes.body, color |-> "f32"])
      [] OTHER -> Err("ImageError")

\* DynamicImage::grayscale: a new image, the colour depth is kept.
image_grayscale(image) ==
    [pixels |-> IF image.pixels = "crab" THEN "crab-gray" ELSE image.pixels,
     color |-> image.color]

\* DynamicImage::write_to(.., ImageOutputFormat::Png)
write_to_png(image) ==
    IF image.color = "u8"
    THEN Ok(Bytes("png", image.pixels))
    ELSE Err("ImageError")

\* ---------------------------------------------------------------- responses
Message(text) == Bytes("text", text)
Response(status, content_type, body) ==
    [kind |-> "response", status |-> status, content_type |-> content_type,
     body |-> body]
ErrorResponse(status, text) == Response(status, <<>>, Message(text))
NoResponse == [kind |-> "none", status |-> 0, content_type |-> <<>>,
               body |-> Message("")]
Panic == [kind |-> "panic", status |-> 0, content_type |-> <<>>,
          body |-> Message("")]

\* ------------------------------------------------------------------ HashMap
\* A HashMap is a function whose domain is the set of keys present.
None == <<>>
Some(v) == <<v>>
EmptyMap == [k \in {} |-> None]

HashMap_get(map, key) ==
    IF key \in DOMAIN map THEN Some(map[key]) ELSE None

\* Mutant: the entry API's or_insert, which keeps the value already present.
HashMap_insert_or_keep(map, key, value) ==
    [k \in DOMAIN map \cup {key} |-> IF k \in DOMAIN map THEN map[k] ELSE value]

\* Mutant: a one-entry cache, the insert evicts every other key.
HashMap_insert_evicting(map, key, value) == [k \in {key} |-> value]

HashMap_insert(map, key, value) ==
    [k \in DOMAIN map \cup {key} |-> IF k = key THEN value ELSE map[k]]

\* Mutant: every key is reported present.
contains_key_always(map, key) == TRUE

contains_key(map, key) == key \in DOMAIN map

\* ------------------------------------------------------------------ KVError
KVError(status_code, message) == [status_code |-> status_code, message |-> message]
KVError_forbidden == KVError(403, "Operation not allowed")
KVError_not_found == KVError(404, "Key not found")
KVError_impossible_operation == KVError(500, "Not possible to insert value")
KVError_from_PoisonError == KVError(500, "Database not reachable")
KVError_from_ImageError == KVError(400, "Image not loadable")
KVError_into_response(error) == ErrorResponse(error.status_code, error.message)

\* --------------------------------------------------------------- StoredType
NoImage == [pixels |-> "", color |-> ""]
NoContentType == ContentType(<<>>, <<>>)
StoredType_Image(image) ==
    [tag |-> "Image", image |-> image, content_type |-> NoContentType,
     bytes |-> Bytes("", "")]
StoredType_Other(content_type, bytes) ==
    [tag |-> "Other", image |-> NoImage, content_type |-> content_type,
     bytes |-> bytes]

StoredType_new(content_type, bytes) ==
    IF starts_with(to_string(content_type), Str_image)
    THEN LET image == load_from_memory(bytes) IN
         IF image.ok
         THEN Ok(StoredType_Image(Unwrap(image)))
         ELSE Err(KVError_from_ImageError)
    ELSE Ok(StoredType_Other(content_type, bytes))

\* ImageResponse::try_from(&DynamicImage): the image written as PNG.
ImageResponse_try_from(image) == write_to_png(image)
ImageResponse_into_response(bytes) == Response(200, Str_image_png, bytes)

\* impl IntoResponse for &StoredType
StoredType_into_response(value) ==
    IF value.tag = "Image"
    THEN LET response == ImageResponse_try_from(value.image) IN
         IF response.ok
         THEN ImageResponse_into_response(Unwrap(response))
         ELSE KVError_into_response(KVError_from_ImageError)
    ELSE Response(200, to_string(value.content_type), value.bytes)

\* --------------------------------------------------------------- KVDatabase
\* impl KVDatabase for HashMap<String, StoredType>
KVDatabase_read(map, key) ==
    LET value == HashMap_get(map, key) IN
    IF value # None THEN Ok(value[1]) ELSE Err(KVError_not_found)

KVDatabase_insert(map, key, value) == HashMap_insert(map, key, value)

\* impl KVDatabase for RwLock<HashMap<String, StoredType>>: the lock is its
\* poison flag and the map it guards.
RwLockOf(map) == [poisoned |-> FALSE, map |-> map]

KVDatabase_RwLock_read(lock, key) ==
    IF lock.poisoned
    THEN Err(KVError_from_PoisonError)
    ELSE LET value == HashMap_get(lock.map, key) IN
         IF value # None THEN Ok(value[1]) ELSE Err(KVError_not_found)

\* Mutant: the insert goes into a clone taken under the read guard.
KVDatabase_RwLock_insert_into_clone(lock, key, value) ==
    IF lock.poisoned
    THEN [result |-> Err(KVError_from_PoisonError), lock |-> lock]
    ELSE [result |-> Ok("()"), lock |-> lock]

\* The result and the lock after the call.
KVDatabase_RwLock_insert(lock, key, value) ==
    IF lock.poisoned
    THEN [result |-> Err(KVError_from_PoisonError), lock |-> lock]
    ELSE [result |-> Ok("()"),
          lock |-> [lock EXCEPT !.map = HashMap_insert(lock.map, key, value)]]

\* ------------------------------------------------------------ KeyValueStore
\* impl KeyValueStore for HashMap<String, StoredType>
KeyValueStore_get_item(map, key) == HashMap_get(map, key)
KeyValueStore_set_item(map, key, value) == HashMap_insert(map, key, value)

\* ------------------------------------------------------------ std RwLock
\* RwLock::read returns once no writer holds the lock; RwLock::write once
\* nobody holds it.  Both return Err(PoisonError) when the lock is poisoned.
\* Mutant: a read guard handed out while the write guard is held.
RwLock_can_read_during_write(w, rs) == TRUE
RwLock_can_read(w, rs) == w = 0
\* Mutant: a write guard handed out while read guards are held.
RwLock_can_write_among_readers(w, rs) == w = 0
RwLock_can_write(w, rs) == w = 0 /\ rs = {}

\* ------------------------------------------------------- kv_store handlers
\* The tuple post_kv stores: (content_type.to_string(), data).
Entry(content_type, data) == [content_type |-> content_type, data |-> data]

\* Mutant: an absent key answered with an empty 200.
get_kv_response_or_default(map, key) ==
    LET found == HashMap_get(map, key) IN
    IF found # None
    THEN Response(200, found[1].content_type, found[1].data)
    ELSE Response(200, <<>>, Message(""))

\* get_kv, the match on db.get(&key)
get_kv_response(map, key) ==
    LET found == HashMap_get(map, key) IN
    IF found # None
    THEN Response(200, found[1].content_type, found[1].data)
    ELSE ErrorResponse(404, "Key not found")

\* Mutant: the content type is ignored and the bytes are sniffed.
grayscale_outcome_sniffing(map, key) ==
    IF contains_key(map, key)
    THEN LET entry == HashMap_get(map, key)[1]
             image == load_from_memory(entry.data) IN
         IF ~image.ok
         THEN [resp |-> ErrorResponse(403, "Not possible to grayscale this type of image"),
               calls |-> {"load_from_memory"}]
         ELSE LET result == write_to_png(image_grayscale(Unwrap(image))) IN
              IF ~result.ok
              THEN [resp |-> ErrorResponse(500, "Error writing grayscale image"),
                    calls |-> {"load_from_memory", "grayscale", "write_to"}]
              ELSE [resp |-> Response(200, Str_image_png, Unwrap(result)),
                    calls |-> {"load_from_memory", "grayscale", "write_to"}]
    ELSE [resp |-> ErrorResponse(404, "Key not found"), calls |-> {}]

\* grayscale, from db.contains_key(&key) on: the response and the image-crate
\* calls made on the way to it.
grayscale_outcome(map, key) ==
    IF contains_key(map, key)
    THEN IF HashMap_get(map, key) = None
         THEN [resp |-> Panic, calls |-> {}]
         ELSE
         LET entry == HashMap_get(map, key)[1] IN
         IF entry.content_type = Str_image_png
         THEN LET image == load_from_memory(entry.data) IN
              IF ~image.ok
              THEN [resp |-> ErrorResponse(403, "Not possible to grayscale this type of image"),
                    calls |-> {"load_from_memory"}]
              ELSE LET result == write_to_png(image_grayscale(Unwrap(image))) IN
                   IF ~result.ok
                   THEN [resp |-> ErrorResponse(500, "Error writing grayscale image"),
                         calls |-> {"load_from_memory", "grayscale", "write_to"}]
                   ELSE [resp |-> Response(200, Str_image_png, Unwrap(result)),
                         calls |-> {"load_from_memory", "grayscale", "write_to"}]
         ELSE [resp |-> ErrorResponse(403, "Not possible to grayscale this type of image"),
               calls |-> {}]
    ELSE [resp |-> ErrorResponse(404, "Key not found"), calls |-> {}]

VARIABLES
    db,         \* AppState.db of the handlers: key -> (content type, bytes)
    readers,    \* handlers holding a read guard of the AppState lock
    writer,     \* handler holding the write guard of the AppState lock, or 0
    poisoned,   \* the AppState lock is poisoned
    backend,    \* the type behind AppState.db: "HashMap" or "RwLock"
    dbReaders,  \* handlers holding a read guard of an RwLock-backed db
    dbWriter,   \* handler holding the write guard of an RwLock-backed db, or 0
    pc,         \* position of each handler
    req,        \* the request each handler serves
    resp,       \* the response each handler has built
    calls,      \* image-crate calls a handler made for its request
    lastWrite,  \* history: key -> the value of the last completed insert
    routed,     \* number of requests routed, counted in the bounded workloads
    store,      \* a HashMap<String, StoredType> used through KVDatabase
    newArgs,    \* the arguments of the last StoredType::new
    newResult,  \* the result of the last StoredType::new
    readKey,    \* the key of the last KVDatabase::read
    readResult, \* the result of the last KVDatabase::read
    readResponse, \* the response made of the last KVDatabase::read result
    rwStore,    \* an RwLock<HashMap<String, StoredType>> used through KVDatabase
    kvStore,    \* a HashMap<String, StoredType> used through KeyValueStore
    rwInsertResult, \* the result of the last insert into rwStore
    rwReadResult,   \* the result of the last read of rwStore
    itemResult      \* the result of the last get_item of kvStore

handlerVars == <<db, readers, writer, poisoned, backend, dbReaders, dbWriter,
                 pc, req, resp, calls, lastWrite, routed>>
backendVars == <<rwStore, kvStore, rwInsertResult, rwReadResult, itemResult>>
typedVars == <<store, newArgs, newResult, readKey, readResult, readResponse,
               backendVars>>
vars == <<handlerVars, typedVars>>

\* Where a handler touches the map: under the AppState guard alone, or under
\* the guard of the RwLock-backed db as well.
AccessPc == IF backend = "HashMap" THEN "locked" ELSE "inner"

NoRequest == [op |-> "none", key |-> ""]
Ops == {"post_kv", "get_kv", "grayscale"}

\* The bodies and content types the requests of the model carry.
PostContentTypes == {TextPlain, ImagePng, ImageJpeg}
PostBodies == {HelloWorld, CrabPng, CrabExr}

InitHandlers ==
    /\ db = EmptyMap
    /\ readers = {}
    /\ writer = 0
    /\ poisoned = FALSE
    /\ dbReaders = {}
    /\ dbWriter = 0
    /\ pc = [h \in Handlers |-> "idle"]
    /\ req = [h \in Handlers |-> NoRequest]
    /\ resp = [h \in Handlers |-> NoResponse]
    /\ calls = [h \in Handlers |-> {}]
    /\ lastWrite = [k \in Keys |-> None]
    /\ routed = 0

NoArgs == [content_type |-> NoContentType, bytes |-> Bytes("", "")]

InitTyped ==
    /\ store = EmptyMap
    /\ newArgs = NoArgs
    /\ newResult = Err(KVError_impossible_operation)
    /\ readKey = ""
    /\ readResult = Err(KVError_impossible_operation)
    /\ readResponse = NoResponse
    /\ rwStore = RwLockOf(EmptyMap)
    /\ kvStore = EmptyMap
    /\ rwInsertResult = Ok("()")
    /\ rwReadResult = Err(KVError_impossible_operation)
    /\ itemResult = None

Init ==
    /\ InitHandlers
    /\ InitTyped
    /\ backend = "HashMap"

\* The router hands a request to a handler task.
Route(h, op, key) ==
    /\ pc[h] = "idle"
    /\ pc' = [pc EXCEPT ![h] = "lock"]
    /\ req' = [req EXCEPT ![h] = [op |-> op, key |-> key]]
    /\ UNCHANGED <<db, readers, writer, poisoned, backend, dbReaders, dbWriter,
                   resp, calls, lastWrite>>
    /\ UNCHANGED <<typedVars, routed>>

\* post_kv: state.write()
post_kv_write(h) ==
    /\ pc[h] = "lock"
    /\ req[h].op = "post_kv"
    /\ RwLock_can_write(writer, readers)
    /\ writer' = h
    /\ pc' = [pc EXCEPT ![h] = "locked"]
    /\ UNCHANGED <<db, readers, poisoned, backend, dbReaders, dbWriter, req,
                   resp, calls, lastWrite>>
    /\ UNCHANGED <<typedVars, routed>>

\* post_kv: .expect(..).db.insert(key, (content_type.to_string(), data))
post_kv_insert(h, content_type, data) ==
    /\ pc[h] = AccessPc
    /\ req[h].op = "post_kv"
    /\ dbReaders' = dbReaders \ {h}
    /\ dbWriter' = IF dbWriter = h THEN 0 ELSE dbWriter
    /\ pc' = [pc EXCEPT ![h] = "return"]
    /\ IF poisoned
       THEN /\ resp' = [resp EXCEPT ![h] = Panic]
            /\ UNCHANGED <<db, lastWrite>>
       ELSE /\ db' = HashMap_insert(db, req[h].key,
                                    Entry(to_string(content_type), data))
            /\ resp' = [resp EXCEPT ![h] = Response(200, <<>>, Message("OK"))]
            /\ lastWrite' = [lastWrite EXCEPT ![req[h].key] =
                                Some(Entry(to_string(content_type), data))]
    /\ UNCHANGED <<readers, writer, poisoned, backend, req, calls>>
    /\ UNCHANGED <<typedVars, routed>>

\* get_kv: state.read()
get_kv_read(h) ==
    /\ pc[h] = "lock"
    /\ req[h].op = "get_kv"
    /\ RwLock_can_read(writer, readers)
    /\ readers' = readers \cup {h}
    /\ pc' = [pc EXCEPT ![h] = "locked"]
    /\ UNCHANGED <<db, writer, poisoned, backend, dbReaders, dbWriter, req,
                   resp, calls, lastWrite>>
    /\ UNCHANGED <<typedVars, routed>>

\* get_kv: match state.read().unwrap().db.get(&key) { .. }
get_kv_match(h) ==
    /\ pc[h] = AccessPc
    /\ req[h].op = "get_kv"
    /\ dbReaders' = dbReaders \ {h}
    /\ dbWriter' = IF dbWriter = h THEN 0 ELSE dbWriter
    /\ pc' = [pc EXCEPT ![h] = "return"]
    /\ resp' = [resp EXCEPT ![h] =
                  IF poisoned THEN Panic ELSE get_kv_response(db, req[h].key)]
    /\ UNCHANGED <<db, readers, writer, poisoned, backend, req, calls,
                   lastWrite>>
    /\ UNCHANGED <<typedVars, routed>>

\* grayscale: let state = state.read();
grayscale_read(h) ==
    /\ pc[h] = "lock"
    /\ req[h].op = "grayscale"
    /\ RwLock_can_read(writer, readers)
    /\ readers' = readers \cup {h}
    /\ pc' = [pc EXCEPT ![h] = "locked"]
    /\ UNCHANGED <<db, writer, poisoned, backend, dbReaders, dbWriter, req,
                   resp, calls, lastWrite>>
    /\ UNCHANGED <<typedVars, routed>>

\* Mutant: the transform is applied to the stored entry, not to a copy.
grayscale_body_in_place(h) ==
    /\ pc[h] = AccessPc
    /\ req[h].op = "grayscale"
    /\ dbReaders' = dbReaders \ {h}
    /\ dbWriter' = IF dbWriter = h THEN 0 ELSE dbWriter
    /\ pc' = [pc EXCEPT ![h] = "return"]
    /\ LET outcome == grayscale_outcome(db, req[h].key) IN
       /\ resp' = [resp EXCEPT ![h] = outcome.resp]
       /\ calls' = [calls EXCEPT ![h] = outcome.calls]
       /\ db' = IF outcome.resp.status = 200
                THEN HashMap_insert(db, req[h].key,
                                    Entry(Str_image_png, outcome.resp.body))
                ELSE db
    /\ UNCHANGED <<readers, writer, poisoned, backend, req, lastWrite>>
    /\ UNCHANGED <<typedVars, routed>>

\* grayscale: if state.is_err() { 500 } else { .. db.clone() .. }
grayscale_body(h) ==
    /\ pc[h] = AccessPc
    /\ req[h].op = "grayscale"
    /\ dbReaders' = dbReaders \ {h}
    /\ dbWriter' = IF dbWriter = h THEN 0 ELSE dbWriter
    /\ pc' = [pc EXCEPT ![h] = "return"]
    /\ IF poisoned
       THEN /\ resp' = [resp EXCEPT ![h] =
                          ErrorResponse(500, "Error accessing state")]
            /\ UNCHANGED calls
       ELSE LET clone == db
                outcome == grayscale_outcome(clone, req[h].key) IN
            /\ resp' = [resp EXCEPT ![h] = outcome.resp]
            /\ calls' = [calls EXCEPT ![h] = outcome.calls]
    /\ UNCHANGED <<db, readers, writer, poisoned, backend, req, lastWrite>>
    /\ UNCHANGED <<typedVars, routed>>

\* Mutant: the handler returns with its guards leaked (never dropped).
Return_leaking_guards(h) ==
    /\ pc[h] = "return"
    /\ pc' = [pc EXCEPT ![h] = "idle"]
    /\ req' = [req EXCEPT ![h] = NoRequest]
    /\ resp' = [resp EXCEPT ![h] = NoResponse]
    /\ calls' = [calls EXCEPT ![h] = {}]
    /\ UNCHANGED <<db, readers, writer, poisoned, backend, dbReaders, dbWriter,
                   lastWrite, routed>>
    /\ UNCHANGED typedVars

\* The handler returns (or unwinds): its guards are dropped and the response
\* goes to the client.
Return(h) ==
    /\ pc[h] = "return"
    /\ readers' = readers \ {h}
    /\ writer' = IF writer = h THEN 0 ELSE writer
    /\ pc' = [pc EXCEPT ![h] = "idle"]
    /\ req' = [req EXCEPT ![h] = NoRequest]
    /\ resp' = [resp EXCEPT ![h] = NoResponse]
    /\ calls' = [calls EXCEPT ![h] = {}]
    /\ UNCHANGED <<db, poisoned, backend, dbReaders, dbWriter, lastWrite>>
    /\ UNCHANGED <<typedVars, routed>>

Next ==
    \E h \in Handlers :
        \/ \E op \in Ops, key \in Keys : Route(h, op, key)
        \/ post_kv_write(h)
        \/ \E content_type \in PostContentTypes, data \in PostBodies :
              post_kv_insert(h, content_type, data)
        \/ get_kv_read(h)
        \/ get_kv_match(h)
        \/ grayscale_read(h)
        \/ grayscale_body(h)
        \/ Return(h)

Spec == Init /\ [][Next]_vars

\* ------------------------------------------------------- the poisoned lock
\* The Arc of the state is shared with whoever built it: a thread that
\* panics while it holds the write guard leaves the lock poisoned.
poison ==
    /\ RwLock_can_write(writer, readers)
    /\ ~poisoned
    /\ poisoned' = TRUE
    /\ UNCHANGED <<db, readers, writer, backend, dbReaders, dbWriter, pc, req,
                   resp, calls, lastWrite>>
    /\ UNCHANGED <<typedVars, routed>>

NextPoisoned == Next \/ poison

SpecPoisoned == Init /\ [][NextPoisoned]_vars

\* ------------------------------------------------- the RwLock-backed store
\* What a handler does with a poisoned AppState lock.
poisoned_outcome(op) ==
    IF op = "grayscale"
    THEN ErrorResponse(500, "Error accessing state")
    ELSE Panic

\* KVDatabase::insert for RwLock<HashMap>: self.write()?
KVDatabase_write(h) ==
    /\ pc[h] = "locked"
    /\ backend = "RwLock"
    /\ req[h].op = "post_kv"
    /\ IF poisoned
       THEN /\ resp' = [resp EXCEPT ![h] = poisoned_outcome(req[h].op)]
            /\ pc' = [pc EXCEPT ![h] = "return"]
            /\ UNCHANGED dbWriter
       ELSE /\ RwLock_can_write(dbWriter, dbReaders)
            /\ dbWriter' = h
            /\ pc' = [pc EXCEPT ![h] = "inner"]
            /\ UNCHANGED resp
    /\ UNCHANGED <<db, readers, writer, poisoned, backend, dbReaders, req,
                   calls, lastWrite>>
    /\ UNCHANGED <<typedVars, routed>>

\* KVDatabase::read for RwLock<HashMap>: self.read()?
KVDatabase_read_lock(h) ==
    /\ pc[h] = "locked"
    /\ backend = "RwLock"
    /\ req[h].op \in {"get_kv", "grayscale"}
    /\ IF poisoned
       THEN /\ resp' = [resp EXCEPT ![h] = poisoned_outcome(req[h].op)]
            /\ pc' = [pc EXCEPT ![h] = "return"]
            /\ UNCHANGED dbReaders
       ELSE /\ RwLock_can_read(dbWriter, dbReaders)
            /\ dbReaders' = dbReaders \cup {h}
            /\ pc' = [pc EXCEPT ![h] = "inner"]
            /\ UNCHANGED resp
    /\ UNCHANGED <<db, readers, writer, poisoned, backend, dbWriter, req,
                   calls, lastWrite>>
    /\ UNCHANGED <<typedVars, routed>>

\* A workload of at most MaxRequests requests.
RouteBounded(h, op, key) ==
    /\ routed < MaxRequests
    /\ routed' = routed + 1
    /\ pc[h] = "idle"
    /\ pc' = [pc EXCEPT ![h] = "lock"]
    /\ req' = [req EXCEPT ![h] = [op |-> op, key |-> key]]
    /\ UNCHANGED <<db, readers, writer, poisoned, backend, dbReaders, dbWriter,
                   resp, calls, lastWrite>>
    /\ UNCHANGED typedVars

InitNested ==
    /\ InitHandlers
    /\ InitTyped
    /\ backend \in {"HashMap", "RwLock"}

\* A handler task's own steps, from the lock acquisition to its return.
Step(h) ==
    \/ post_kv_write(h)
    \/ \E data \in {HelloWorld, CrabPng} : post_kv_insert(h, ImagePng, data)
    \/ get_kv_read(h)
    \/ get_kv_match(h)
    \/ grayscale_read(h)
    \/ grayscale_body(h)
    \/ KVDatabase_write(h)
    \/ KVDatabase_read_lock(h)
    \/ Return(h)

NextNested ==
    \E h \in Handlers :
        \/ \E op \in Ops, key \in Keys : RouteBounded(h, op, key)
        \/ Step(h)

\* The runtime runs every task that can take a step.
FairSpec ==
    /\ InitNested
    /\ [][NextNested]_vars
    /\ \A h \in Handlers : WF_vars(Step(h))

\* ------------------------------------------------- the StoredType backends
\* The content types and bodies StoredType::new is applied to.
NewContentTypes == {TextPlain, ImagePng, ImageJpeg, ImagesPlain}
NewBodies == {HelloWorld, CrabPng, CrabJpeg, CrabExr}

\* StoredType::new(content_type, bytes)
new(content_type, bytes) ==
    /\ newArgs' = [content_type |-> content_type, bytes |-> bytes]
    /\ newResult' = StoredType_new(content_type, bytes)
    /\ UNCHANGED <<store, readKey, readResult, readResponse, backendVars>>
    /\ UNCHANGED handlerVars

\* KVDatabase::insert(key, value) of a value StoredType::new returned
insert(key) ==
    /\ newResult.ok
    /\ store' = KVDatabase_insert(store, key, Unwrap(newResult))
    /\ UNCHANGED <<newArgs, newResult, readKey, readResult, readResponse,
                   backendVars>>
    /\ UNCHANGED handlerVars

\* KVDatabase::read(key), and the result turned into a response
read(key) ==
    /\ readKey' = key
    /\ readResult' = KVDatabase_read(store, key)
    /\ readResponse' =
          IF readResult'.ok
          THEN StoredType_into_response(Unwrap(readResult'))
          ELSE KVError_into_response(UnwrapErr(readResult'))
    /\ UNCHANGED <<store, newArgs, newResult, backendVars>>
    /\ UNCHANGED handlerVars

NextTyped ==
    \/ \E content_type \in NewContentTypes, bytes \in NewBodies :
          new(content_type, bytes)
    \/ \E key \in Keys : insert(key)
    \/ \E key \in Keys : read(key)

SpecTyped == Init /\ [][NextTyped]_vars

\* ------------------------------------------------- the backends side by side
\* The same value inserted under the same key through each backend.
insert_all(key) ==
    /\ newResult.ok
    /\ store' = KVDatabase_insert(store, key, Unwrap(newResult))
    /\ LET inserted == KVDatabase_RwLock_insert(rwStore, key, Unwrap(newResult)) IN
       /\ rwStore' = inserted.lock
       /\ rwInsertResult' = inserted.result
    /\ kvStore' = KeyValueStore_set_item(kvStore, key, Unwrap(newResult))
    /\ UNCHANGED <<newArgs, newResult, readKey, readResult, readResponse,
                   rwReadResult, itemResult>>
    /\ UNCHANGED handlerVars

\* The same key read through each backend.
read_all(key) ==
    /\ readKey' = key
    /\ readResult' = KVDatabase_read(store, key)
    /\ rwReadResult' = KVDatabase_RwLock_read(rwStore, key)
    /\ itemResult' = KeyValueStore_get_item(kvStore, key)
    /\ UNCHANGED <<store, newArgs, newResult, readResponse, rwStore, kvStore,
                   rwInsertResult>>
    /\ UNCHANGED handlerVars

\* A thread panics while it holds the write guard of the RwLock<HashMap>.
poison_store ==
    /\ ~rwStore.poisoned
    /\ rwStore' = [rwStore EXCEPT !.poisoned = TRUE]
    /\ UNCHANGED <<store, newArgs, newResult, readKey, readResult, readResponse,
                   kvStore, rwInsertResult, rwReadResult, itemResult>>
    /\ UNCHANGED handlerVars

NextBackends ==
    \/ \E content_type \in {TextPlain, ImagePng}, bytes \in {HelloWorld, CrabPng} :
          new(content_type, bytes)
    \/ \E key \in Keys : insert_all(key)
    \/ \E key \in Keys : read_all(key)
    \/ poison_store

SpecBackends == Init /\ [][NextBackends]_vars

\* ===================================================================== claims
Returning(h, op) == pc[h] = "return" /\ req[h].op = op

C2_UnwrittenKeyNotFound ==
    \A h \in Handlers :
        ((Returning(h, "get_kv") \/ Returning(h, "grayscale"))
            /\ lastWrite[req[h].key] = None) =>
                resp[h].kind = "response" /\ resp[h].status = 404

\* C2 witness: a grayscale of a missing key answers while the other key is
\* present and a get_kv of the missing key answers too.
C2_Witness ==
    \E h, g \in Handlers :
        /\ Returning(h, "grayscale") /\ Returning(g, "get_kv")
        /\ req[h].key = req[g].key
        /\ lastWrite[req[h].key] = None
        /\ DOMAIN db # {}
        /\ resp[h].status = 404 /\ resp[g].status = 404

\* C3: a post_kv whose content type starts with "image/" and whose bytes do
\* not decode is rejected and leaves the store unchanged, so the store never
\* holds an undecodable payload under an image content type.
C3_UndecodableImageNeverStored ==
    \A k \in DOMAIN db :
        starts_with(db[k].content_type, Str_image_slash) =>
            load_from_memory(db[k].data).ok

\* C4: grayscale of a key whose content type does not start with "image/"
\* answers 403 and makes no call into the image crate, whatever the bytes.
C4_OpaqueGrayscaleForbidden ==
    \A h \in Handlers :
        (/\ Returning(h, "grayscale")
         /\ contains_key(db, req[h].key)
         /\ ~starts_with(db[req[h].key].content_type, Str_image_slash)) =>
            /\ resp[h].kind = "response" /\ resp[h].status = 403
            /\ calls[h] = {}

\* C4 witness: grayscale answers 403 for text/plain bytes that would decode.
C4_Witness ==
    \E h \in Handlers :
        /\ Returning(h, "grayscale")
        /\ contains_key(db, req[h].key)
        /\ db[req[h].key] = Entry(to_string(TextPlain), CrabPng)
        /\ resp[h].status = 403

\* C5: grayscale of a key whose content type starts with "image/" and whose
\* bytes decode answers 200 with an image/png body (stated for the images
\* the PNG encoder accepts).
C5_ImageGrayscaleSucceeds ==
    \A h \in Handlers :
        (/\ Returning(h, "grayscale")
         /\ contains_key(db, req[h].key)
         /\ starts_with(db[req[h].key].content_type, Str_image_slash)
         /\ load_from_memory(db[req[h].key].data).ok
         /\ write_to_png(image_grayscale(
                Unwrap(load_from_memory(db[req[h].key].data)))).ok) =>
            /\ resp[h].kind = "response" /\ resp[h].status = 200
            /\ resp[h].content_type = Str_image_png
            /\ resp[h].body.fmt = "png"

\* C6: the AppState lock is held by readers or by one writer, never both; a
\* handler that is about to touch the map, or has touched it, holds the guard
\* its operation needs, and a handler outside its critical section holds none.
C6_ReadersWriterDiscipline ==
    /\ writer # 0 => readers = {}
    /\ \A h \in Handlers :
        /\ pc[h] \in {"locked", "inner", "return"} =>
              IF req[h].op = "post_kv" THEN writer = h ELSE h \in readers
        /\ pc[h] \in {"idle", "lock"} => writer # h /\ h \notin readers

\* C6 witness: a handler holds the write guard and is about to insert while
\* a get_kv of the same key waits for the lock.
C6_Witness ==
    \E w, r \in Handlers :
        /\ writer = w /\ pc[w] = "locked"
        /\ pc[r] = "lock" /\ req[r] = [op |-> "get_kv", key |-> req[w].key]

\* C7: with the AppState lock poisoned, every handler answers 500 and none
\* panics or answers with data.
C7_PoisonedLockAnswers500 ==
    \A h \in Handlers :
        (pc[h] = "return" /\ poisoned) =>
            resp[h].kind = "response" /\ resp[h].status = 500

C8_OtherExactlyWithoutImagePrefix ==
    newArgs # NoArgs =>
        ((/\ newResult.ok
          /\ Unwrap(newResult) =
                StoredType_Other(newArgs.content_type, newArgs.bytes))
         <=> ~starts_with(to_string(newArgs.content_type), Str_image_slash))

\* C10: when the PNG encoding of a stored Image fails, the response made of
\* the value read is a 500, never a 400.
C10_EncodeFailureAnswers500 ==
    (/\ readResult.ok
     /\ Unwrap(readResult).tag = "Image"
     /\ ~write_to_png(Unwrap(readResult).image).ok) =>
        readResponse.kind = "response" /\ readResponse.status = 500

\* The sequential store: what a read of the key answers after the inserts
\* completed so far.
SequentialRead(key) ==
    IF lastWrite[key] = None
    THEN ErrorResponse(404, "Key not found")
    ELSE Response(200, lastWrite[key][1].content_type, lastWrite[key][1].data)

\* C11: a key that is present stays present in every later state, whatever
\* operation runs, and a get_kv of a key that has been written never answers
\* 404.
C11_WrittenKeyStaysPresent ==
    [][/\ \A k \in Keys : contains_key(db, k) => contains_key(db', k)
       /\ \A h \in Handlers :
            (/\ pc[h] = "locked" /\ pc'[h] = "return" /\ req[h].op = "get_kv"
             /\ lastWrite[req[h].key] # None) => resp'[h].status # 404]_vars

\* C11 witness: both keys are present, one was written with an undecodable
\* image body, a grayscale of it has failed and a post_kv to the other waits.
C11_Witness ==
    \E h, w \in Handlers :
        /\ DOMAIN db = Keys
        /\ Returning(h, "grayscale") /\ resp[h].status = 403
        /\ db[req[h].key] = Entry(Str_image_png, HelloWorld)
        /\ pc[w] = "lock" /\ req[w].op = "post_kv" /\ req[w].key # req[h].key

\* C12: a get_kv that overlaps a post_kv to its key answers one whole entry,
\* the content type and bytes of the same insert, taken while no insert is
\* under way: the one before the overlapping write or the one after it, never
\* 404 for a written key; each response is the one the operations give when
\* run one after the other in the order of their accesses.
C12_ReadsAreAtomic ==
    /\ \A h \in Handlers :
        Returning(h, "get_kv") =>
            /\ writer = 0
            /\ resp[h] = SequentialRead(req[h].key)
    /\ \A h \in Handlers :
        Returning(h, "post_kv") =>
            /\ readers = {}
            /\ HashMap_get(db, req[h].key) = lastWrite[req[h].key]

\* C12 witness: a get_kv has answered the text/plain entry of a key while a
\* post_kv to the same key waits for the lock.
C12_Witness ==
    \E h, w \in Handlers :
        /\ Returning(h, "get_kv")
        /\ resp[h] = Response(200, to_string(TextPlain), HelloWorld)
        /\ pc[w] = "lock" /\ req[w] = [op |-> "post_kv", key |-> req[h].key]

\* C13: a step of get_kv or grayscale leaves the whole store unchanged,
\* whether it succeeds or fails; the insert of a post_kv changes the entry of
\* its key alone; nothing else changes the store.
C13_FrameOfOperations ==
    [][/\ \A h \in Handlers :
            (pc[h] # pc'[h] /\ req[h].op \in {"get_kv", "grayscale"}) =>
                db' = db
       /\ \A h \in Handlers :
            (pc[h] = "locked" /\ pc'[h] = "return" /\ req[h].op = "post_kv") =>
                \A k \in Keys \ {req[h].key} :
                    HashMap_get(db', k) = HashMap_get(db, k)
       /\ db' # db =>
            \E h \in Handlers :
                pc[h] = "locked" /\ pc'[h] = "return" /\ req[h].op = "post_kv"]_vars

\* C13 witness: a grayscale has answered 200 with the gray image while its
\* key still holds the colour image and the other key holds a text.
C13_Witness ==
    \E h \in Handlers :
        /\ Returning(h, "grayscale")
        /\ resp[h] = Response(200, Str_image_png, CrabGrayPng)
        /\ db[req[h].key] = Entry(Str_image_png, CrabPng)
        /\ \E k \in Keys \ {req[h].key} :
              HashMap_get(db, k) = Some(Entry(to_string(TextPlain), HelloWorld))

\* C15: in every interleaving of the handlers the AppState lock is never
\* poisoned and no handler panics: not on the lock results post_kv and get_kv
\* unwrap, not on grayscale's unwrap of db.get after contains_key.
C15_NoHandlerPanics ==
    /\ ~poisoned
    /\ \A h \in Handlers : resp[h].kind # "panic"

\* C15 witness: a grayscale has passed its unwraps and answered 200 while a
\* post_kv to the same key waits for the lock.
C15_Witness ==
    \E h, w \in Handlers :
        /\ Returning(h, "grayscale") /\ resp[h].status = 200
        /\ pc[w] = "lock" /\ req[w] = [op |-> "post_kv", key |-> req[h].key]

\* C14: as long as the lock is not poisoned, the HashMap backend and the
\* RwLock<HashMap> backend of KVDatabase answer every insert and every read
\* alike and hold the same entries, and KeyValueStore::get_item is None
\* exactly where KVDatabase::read is the not-found error, and otherwise holds
\* the value read.
C14_BackendsAgree ==
    ~rwStore.poisoned =>
        /\ rwInsertResult.ok
        /\ rwStore.map = store
        /\ kvStore = store
        /\ readKey # "" =>
            /\ rwReadResult = readResult
            /\ itemResult = None <=> readResult = Err(KVError_not_found)
            /\ itemResult # None =>
                  readResult.ok /\ itemResult = Some(Unwrap(readResult))

\* C14 witness: with no poison, one key holds an image in every backend, and
\* the read of the other key is not found in both KVDatabase backends and
\* None in the KeyValueStore.
C14_Witness ==
    \E k \in Keys :
        /\ ~rwStore.poisoned
        /\ DOMAIN rwStore.map = {k} /\ rwStore.map[k].tag = "Image"
        /\ DOMAIN kvStore = {k} /\ kvStore[k].tag = "Image"
        /\ newResult.ok /\ Unwrap(newResult).tag = "Other"
        /\ readKey \in Keys \ {k}
        /\ rwReadResult = Err(KVError_not_found)
        /\ itemResult = None

====
